---- MODULE Spec2Model ----
(***************************************************************************)
(* Model of the atmos data registry contract (contracts/atmos-v2.clar).    *)
(*                                                                         *)
(* State: the two maps and the three data vars of the contract.  Every     *)
(* public function is one action.  A public function's body is translated *)
(* statement by statement into an operator that threads the contract       *)
(* state through its writes and stops at the first asserts!/unwrap! that   *)
(* fails; DefinePublic then applies the rule of define-public: a call that *)
(* returns (err ...) commits none of its writes.                           *)
(*                                                                         *)
(* datasets-by-owner is read only through (default-to (list) ...), so an   *)
(* absent entry and an entry holding the empty list are the same value     *)
(* here: datasets_by_owner is a total function onto sequences.             *)
(***************************************************************************)
EXTENDS Integers, Sequences, FiniteSets, TLC

\* ---------------------------------------------------------------- bounds

\* Identifiers created under Spec: dataset-counter is capped at MaxId.
MaxId == 2

\* Identifiers created under SpecIndex, which fills an owner's index.
MaxIndexId == 4

\* MAX-OWNER-DATASETS (u1000 in the contract), scaled so that a full owner
\* index is reachable.
MAX_OWNER_DATASETS == 3

\* MAX-PAGE-SIZE (u100 in the contract), scaled so that a page shorter than
\* the identifier space is reachable.
MAX_PAGE_SIZE == 2

\* Width of a uint (128 bits in Clarity), scaled.
UintBits == 4

\* ------------------------------------------------------------- constants

ERR_NOT_AUTHORIZED == 401
ERR_DATASET_NOT_FOUND == 404
ERR_INVALID_PARAMS == 400
ERR_METADATA_FROZEN == 403
ERR_CONTRACT_PAUSED == 503
ERR_DATASET_EXISTS == 409

\* The largest uint: an addition beyond it aborts the call.
UintMax == 2^UintBits - 1

\* tx-sender values; the deployer is the initial contract-admin.
Principals == {"deployer", "wallet_1", "wallet_2"}

Deployer == "deployer"

\* burn-block-height values seen by register-dataset.
BlockHeights == {7}

Ok(v) == [ok |-> TRUE, val |-> v]

Err(code) == [ok |-> FALSE, val |-> code]

\* The descriptive metadata update-dataset-metadata may be given (name,
\* description, data-type, is-public); the last three have an empty text.
MetaInputs ==
  { [name |-> "n1", description |-> "d1", data_type |-> "t1", is_public |-> TRUE],
    [name |-> "n2", description |-> "d2", data_type |-> "t2", is_public |-> FALSE],
    [name |-> "",   description |-> "d1", data_type |-> "t1", is_public |-> TRUE],
    [name |-> "n1", description |-> "",   data_type |-> "t1", is_public |-> TRUE],
    [name |-> "n1", description |-> "d1", data_type |-> "",   is_public |-> TRUE] }

\* Measurement fields (collection-date, altitudes, coordinates in
\* micro-degrees, ipfs-hash): GeoOk passes validate-fields with both
\* coordinates on a bound; each of the others breaks one rule.
GeoOk ==
  [collection_date |-> 1640995200, altitude_min |-> 1000, altitude_max |-> 5000,
   latitude |-> 90000000, longitude |-> -180000000, ipfs_hash |-> ""]

GeoInputs ==
  { GeoOk,
    [GeoOk EXCEPT !.altitude_min = 5000, !.altitude_max = 1000],
    [GeoOk EXCEPT !.latitude = 90000001],
    [GeoOk EXCEPT !.longitude = -180000001],
    [GeoOk EXCEPT !.collection_date = 0] }

MetaOk == [name |-> "n1", description |-> "d1", data_type |-> "t1", is_public |-> TRUE]

\* Arguments of register-dataset: every metadata with the valid measurement
\* fields, and the valid metadata with every measurement tuple.
RegisterInputs ==
  { <<m, GeoOk>> : m \in MetaInputs } \cup { <<MetaOk, g>> : g \in GeoInputs }

\* The administrative fields import-dataset takes verbatim (metadata-frozen,
\* created-at, status).
AdminOk == [metadata_frozen |-> FALSE, created_at |-> 7, status |-> "active"]

\* Arguments of import-dataset: valid ones frozen and not, and one broken
\* in each group of fields.
ImportInputs ==
  { <<MetaOk, GeoOk, AdminOk>>,
    <<MetaOk, GeoOk, [AdminOk EXCEPT !.metadata_frozen = TRUE]>>,
    <<MetaOk, GeoOk, [AdminOk EXCEPT !.status = "retired"]>>,
    <<MetaOk, [GeoOk EXCEPT !.latitude = -90000001], AdminOk>>,
    <<[MetaOk EXCEPT !.name = ""], GeoOk, AdminOk>> }

\* SpecIndex registers and imports one valid and one invalid tuple each.
IndexRegisterInputs == { <<MetaOk, GeoOk>>, <<MetaOk, [GeoOk EXCEPT !.collection_date = 0]>> }

IndexImportInputs ==
  { <<MetaOk, GeoOk, AdminOk>>, <<MetaOk, GeoOk, [AdminOk EXCEPT !.status = "retired"]>> }

VARIABLES datasets, datasets_by_owner, dataset_counter, contract_admin,
          contract_paused

vars == <<datasets, datasets_by_owner, dataset_counter, contract_admin,
          contract_paused>>

\* The contract state as one value, as a public function's body sees it.
Cur ==
  [datasets |-> datasets, by_owner |-> datasets_by_owner,
   counter |-> dataset_counter, admin |-> contract_admin,
   paused |-> contract_paused]

\* ------------------------------------------------------ map primitives

\* (map-get? datasets { dataset-id: id }) is some record, or none.
HasDataset(S, id) == id \in DOMAIN S.datasets

\* (map-set datasets { dataset-id: id } rec)
MapSetDataset(S, id, rec) ==
  [S EXCEPT !.datasets =
     [k \in (DOMAIN S.datasets) \cup {id} |-> IF k = id THEN rec ELSE S.datasets[k]]]

\* ---------------------------------------------------- private helpers

\* Variant: the contract admin passes the ownership check too.
is_dataset_owner_or_admin(S, sender, id) ==
  IF id \in DOMAIN S.datasets
    THEN sender = S.datasets[id].owner \/ sender = S.admin
    ELSE FALSE

is_dataset_owner(S, sender, id) ==
  IF HasDataset(S, id) THEN sender = S.datasets[id].owner ELSE FALSE

get_owner_dataset_ids(S, owner) == S.by_owner[owner]

Contains(list, x) == \E i \in 1..Len(list) : list[i] = x

\* Variant: the appended list is never cut at MAX-OWNER-DATASETS.
FitsAnyLen(list) == TRUE

\* (as-max-len? list MAX-OWNER-DATASETS) is some list, or none.
FitsMaxLen(list) == Len(list) <= MAX_OWNER_DATASETS

\* Variant: the id is appended without a look at the list (the first
\* version of the contract).
add_dataset_to_owner_unchecked(S, owner, id) ==
  LET current == get_owner_dataset_ids(S, owner) IN
  IF FitsMaxLen(Append(current, id))
    THEN [state |-> [S EXCEPT !.by_owner[owner] = Append(current, id)],
          result |-> Ok(TRUE)]
    ELSE [state |-> S, result |-> Err(ERR_INVALID_PARAMS)]

add_dataset_to_owner(S, owner, id) ==
  LET current == get_owner_dataset_ids(S, owner) IN
  IF Contains(current, id)
    THEN [state |-> S, result |-> Ok(TRUE)]
    ELSE IF FitsMaxLen(Append(current, id))
      THEN [state |-> [S EXCEPT !.by_owner[owner] = Append(current, id)],
            result |-> Ok(TRUE)]
      ELSE [state |-> S, result |-> Err(ERR_INVALID_PARAMS)]

\* Variant: the fold keeps the items in front of the result, not behind.
remove_fold_prepend(item, acc) ==
  IF item = acc.target
    THEN acc
    ELSE [result |-> <<item>> \o acc.result, target |-> acc.target]

remove_fold(item, acc) ==
  IF item = acc.target
    THEN acc
    ELSE [result |-> Append(acc.result, item), target |-> acc.target]

RECURSIVE FoldRemove(_, _)
\* (fold remove-fold items acc): left to right over the list.
FoldRemove(items, acc) ==
  IF items = <<>> THEN acc
  ELSE FoldRemove(Tail(items), remove_fold(Head(items), acc))

\* Variant: the old owner's index is left as it is (the first version of
\* the contract has no removal).
remove_dataset_from_owner_skip(S, owner, id) == S

remove_dataset_from_owner(S, owner, id) ==
  LET current == get_owner_dataset_ids(S, owner)
      updated == FoldRemove(current, [result |-> <<>>, target |-> id]).result
  IN [S EXCEPT !.by_owner[owner] = updated]

is_valid_status(status) == status = "active" \/ status = "deprecated"

\* Variant: the coordinate bounds themselves are turned down.
validate_fields_open_bounds(name, description, data_type, collection_date, altitude_min, altitude_max, latitude, longitude, ipfs_hash, status) ==
  /\ Len(name) >= 1
  /\ Len(description) >= 1
  /\ Len(data_type) >= 1
  /\ collection_date > 0
  /\ altitude_max >= altitude_min
  /\ latitude > -90 * 1000000 /\ latitude < 90 * 1000000
  /\ longitude > -180 * 1000000 /\ longitude < 180 * 1000000
  /\ (Len(ipfs_hash) = 0 \/ Len(ipfs_hash) >= 1)
  /\ is_valid_status(status)

\* Variant: the altitudes are not compared and an ipfs-hash is required.
validate_fields_hash_required(name, description, data_type, collection_date, altitude_min, altitude_max, latitude, longitude, ipfs_hash, status) ==
  /\ Len(name) >= 1
  /\ Len(description) >= 1
  /\ Len(data_type) >= 1
  /\ collection_date > 0
  /\ latitude >= -90 * 1000000 /\ latitude <= 90 * 1000000
  /\ longitude >= -180 * 1000000 /\ longitude <= 180 * 1000000
  /\ Len(ipfs_hash) >= 1
  /\ is_valid_status(status)

validate_fields(name, description, data_type, collection_date, altitude_min, altitude_max, latitude, longitude, ipfs_hash, status) ==
  /\ Len(name) >= 1
  /\ Len(description) >= 1
  /\ Len(data_type) >= 1
  /\ collection_date > 0
  /\ altitude_max >= altitude_min
  /\ latitude >= -90 * 1000000 /\ latitude <= 90 * 1000000
  /\ longitude >= -180 * 1000000 /\ longitude <= 180 * 1000000
  /\ (Len(ipfs_hash) = 0 \/ Len(ipfs_hash) >= 1)
  /\ is_valid_status(status)

\* Variant: the pause flag is not consulted.
check_not_paused_ignored(S) == TRUE

check_not_paused(S) == ~S.paused

\* ------------------------------------------------- define-public rule

\* Variant: the writes made before the failing statement stay.
DefinePublicNoAbort(pre, out) == out

\* A public call that returns (err ...) aborts: none of its writes commit.
DefinePublic(pre, out) ==
  IF out.result.ok THEN out ELSE [state |-> pre, result |-> out.result]

\* ----------------------------------------------------- public functions

NewDataset(owner, m, g, frozen, created_at, status) ==
  [owner |-> owner, name |-> m.name, description |-> m.description,
   data_type |-> m.data_type, collection_date |-> g.collection_date,
   altitude_min |-> g.altitude_min, altitude_max |-> g.altitude_max,
   latitude |-> g.latitude, longitude |-> g.longitude,
   ipfs_hash |-> g.ipfs_hash, is_public |-> m.is_public,
   metadata_frozen |-> frozen, created_at |-> created_at, status |-> status]

register_dataset_body(S, sender, m, g, height) ==
  LET dataset_id == S.counter + 1
      owner_principal == sender
      current_time == height
  IN
  IF ~check_not_paused(S)
    THEN [state |-> S, result |-> Err(ERR_CONTRACT_PAUSED)]
  ELSE IF ~validate_fields(m.name, m.description, m.data_type, g.collection_date,
                           g.altitude_min, g.altitude_max, g.latitude,
                           g.longitude, g.ipfs_hash, "active")
    THEN [state |-> S, result |-> Err(ERR_INVALID_PARAMS)]
  ELSE
    LET S1 == MapSetDataset(S, dataset_id,
                NewDataset(owner_principal, m, g, FALSE, current_time, "active"))
        a == add_dataset_to_owner(S1, owner_principal, dataset_id)
    IN IF ~a.result.ok
         THEN [state |-> a.state, result |-> Err(ERR_INVALID_PARAMS)]
         ELSE [state |-> [a.state EXCEPT !.counter = dataset_id],
               result |-> Ok(dataset_id)]

\* Variant: dataset-counter is not advanced.
register_dataset_counter_kept(S, sender, m, g, height) ==
  LET out == register_dataset_body(S, sender, m, g, height) IN
  DefinePublic(S, [state |-> [out.state EXCEPT !.counter = S.counter],
                   result |-> out.result])

\* Variant: created-at is taken from collection-date.
register_dataset_dated_by_collection(S, sender, m, g, height) ==
  DefinePublic(S, register_dataset_body(S, sender, m, g, g.collection_date))

register_dataset(S, sender, m, g, height) ==
  DefinePublic(S, register_dataset_body(S, sender, m, g, height))

\* Variant: no asserts! on metadata-frozen.
update_dataset_metadata_body_unfrozen(S, sender, dataset_id, m) ==
  IF ~HasDataset(S, dataset_id)
    THEN [state |-> S, result |-> Err(ERR_DATASET_NOT_FOUND)]
  ELSE LET dataset == S.datasets[dataset_id] IN
  IF ~check_not_paused(S)
    THEN [state |-> S, result |-> Err(ERR_CONTRACT_PAUSED)]
  ELSE IF ~is_dataset_owner(S, sender, dataset_id)
    THEN [state |-> S, result |-> Err(ERR_NOT_AUTHORIZED)]
  ELSE IF ~(Len(m.name) >= 1 /\ Len(m.description) >= 1 /\ Len(m.data_type) >= 1)
    THEN [state |-> S, result |-> Err(ERR_INVALID_PARAMS)]
  ELSE [state |-> MapSetDataset(S, dataset_id,
                    [dataset EXCEPT !.name = m.name,
                                    !.description = m.description,
                                    !.data_type = m.data_type,
                                    !.is_public = m.is_public]),
        result |-> Ok(TRUE)]

\* Variant: the three texts are stored unchecked.
update_dataset_metadata_body_any_text(S, sender, dataset_id, m) ==
  IF ~HasDataset(S, dataset_id)
    THEN [state |-> S, result |-> Err(ERR_DATASET_NOT_FOUND)]
  ELSE LET dataset == S.datasets[dataset_id] IN
  IF ~check_not_paused(S)
    THEN [state |-> S, result |-> Err(ERR_CONTRACT_PAUSED)]
  ELSE IF ~is_dataset_owner(S, sender, dataset_id)
    THEN [state |-> S, result |-> Err(ERR_NOT_AUTHORIZED)]
  ELSE IF dataset.metadata_frozen
    THEN [state |-> S, result |-> Err(ERR_METADATA_FROZEN)]
  ELSE [state |-> MapSetDataset(S, dataset_id,
                    [dataset EXCEPT !.name = m.name,
                                    !.description = m.description,
                                    !.data_type = m.data_type,
                                    !.is_public = m.is_public]),
        result |-> Ok(TRUE)]

\* Variant: the merge sets metadata-frozen as well.
update_dataset_metadata_body_freezing(S, sender, dataset_id, m) ==
  IF ~HasDataset(S, dataset_id)
    THEN [state |-> S, result |-> Err(ERR_DATASET_NOT_FOUND)]
  ELSE LET dataset == S.datasets[dataset_id] IN
  IF ~check_not_paused(S)
    THEN [state |-> S, result |-> Err(ERR_CONTRACT_PAUSED)]
  ELSE IF ~is_dataset_owner(S, sender, dataset_id)
    THEN [state |-> S, result |-> Err(ERR_NOT_AUTHORIZED)]
  ELSE IF dataset.metadata_frozen
    THEN [state |-> S, result |-> Err(ERR_METADATA_FROZEN)]
  ELSE IF ~(Len(m.name) >= 1 /\ Len(m.description) >= 1 /\ Len(m.data_type) >= 1)
    THEN [state |-> S, result |-> Err(ERR_INVALID_PARAMS)]
  ELSE [state |-> MapSetDataset(S, dataset_id,
                    [dataset EXCEPT !.name = m.name,
                                    !.description = m.description,
                                    !.data_type = m.data_type,
                                    !.is_public = m.is_public,
                                    !.metadata_frozen = TRUE]),
        result |-> Ok(TRUE)]

update_dataset_metadata_body(S, sender, dataset_id, m) ==
  IF ~HasDataset(S, dataset_id)
    THEN [state |-> S, result |-> Err(ERR_DATASET_NOT_FOUND)]
  ELSE LET dataset == S.datasets[dataset_id] IN
  IF ~check_not_paused(S)
    THEN [state |-> S, result |-> Err(ERR_CONTRACT_PAUSED)]
  ELSE IF ~is_dataset_owner(S, sender, dataset_id)
    THEN [state |-> S, result |-> Err(ERR_NOT_AUTHORIZED)]
  ELSE IF dataset.metadata_frozen
    THEN [state |-> S, result |-> Err(ERR_METADATA_FROZEN)]
  ELSE IF ~(Len(m.name) >= 1 /\ Len(m.description) >= 1 /\ Len(m.data_type) >= 1)
    THEN [state |-> S, result |-> Err(ERR_INVALID_PARAMS)]
  ELSE [state |-> MapSetDataset(S, dataset_id,
                    [dataset EXCEPT !.name = m.name,
                                    !.description = m.description,
                                    !.data_type = m.data_type,
                                    !.is_public = m.is_public]),
        result |-> Ok(TRUE)]

update_dataset_metadata(S, sender, dataset_id, m) ==
  DefinePublic(S, update_dataset_metadata_body(S, sender, dataset_id, m))

\* Variant: the flag is flipped, not set.
freeze_dataset_metadata_body_toggle(S, sender, dataset_id) ==
  IF ~HasDataset(S, dataset_id)
    THEN [state |-> S, result |-> Err(ERR_DATASET_NOT_FOUND)]
  ELSE LET dataset == S.datasets[dataset_id] IN
  IF ~check_not_paused(S)
    THEN [state |-> S, result |-> Err(ERR_CONTRACT_PAUSED)]
  ELSE IF ~is_dataset_owner(S, sender, dataset_id)
    THEN [state |-> S, result |-> Err(ERR_NOT_AUTHORIZED)]
  ELSE [state |-> MapSetDataset(S, dataset_id,
                    [dataset EXCEPT !.metadata_frozen = ~dataset.metadata_frozen]),
        result |-> Ok(TRUE)]

\* Variant: a frozen record is marked deprecated as well.
freeze_dataset_metadata_body_deprecating(S, sender, dataset_id) ==
  IF ~HasDataset(S, dataset_id)
    THEN [state |-> S, result |-> Err(ERR_DATASET_NOT_FOUND)]
  ELSE LET dataset == S.datasets[dataset_id] IN
  IF ~check_not_paused(S)
    THEN [state |-> S, result |-> Err(ERR_CONTRACT_PAUSED)]
  ELSE IF ~is_dataset_owner(S, sender, dataset_id)
    THEN [state |-> S, result |-> Err(ERR_NOT_AUTHORIZED)]
  ELSE [state |-> MapSetDataset(S, dataset_id,
                    [dataset EXCEPT !.metadata_frozen = TRUE,
                                    !.status = "deprecated"]),
        result |-> Ok(TRUE)]

freeze_dataset_metadata_body(S, sender, dataset_id) ==
  IF ~HasDataset(S, dataset_id)
    THEN [state |-> S, result |-> Err(ERR_DATASET_NOT_FOUND)]
  ELSE LET dataset == S.datasets[dataset_id] IN
  IF ~check_not_paused(S)
    THEN [state |-> S, result |-> Err(ERR_CONTRACT_PAUSED)]
  ELSE IF ~is_dataset_owner(S, sender, dataset_id)
    THEN [state |-> S, result |-> Err(ERR_NOT_AUTHORIZED)]
  ELSE [state |-> MapSetDataset(S, dataset_id,
                    [dataset EXCEPT !.metadata_frozen = TRUE]),
        result |-> Ok(TRUE)]

freeze_dataset_metadata(S, sender, dataset_id) ==
  DefinePublic(S, freeze_dataset_metadata_body(S, sender, dataset_id))

\* Variant: a frozen record cannot change hands.
transfer_dataset_body_frozen_refused(S, sender, dataset_id, new_owner) ==
  IF ~HasDataset(S, dataset_id)
    THEN [state |-> S, result |-> Err(ERR_DATASET_NOT_FOUND)]
  ELSE LET dataset == S.datasets[dataset_id]
           old_owner == dataset.owner IN
  IF ~check_not_paused(S)
    THEN [state |-> S, result |-> Err(ERR_CONTRACT_PAUSED)]
  ELSE IF ~is_dataset_owner(S, sender, dataset_id)
    THEN [state |-> S, result |-> Err(ERR_NOT_AUTHORIZED)]
  ELSE IF dataset.metadata_frozen
    THEN [state |-> S, result |-> Err(ERR_METADATA_FROZEN)]
  ELSE
    LET S1 == MapSetDataset(S, dataset_id, [dataset EXCEPT !.owner = new_owner])
        S2 == remove_dataset_from_owner(S1, old_owner, dataset_id)
        a == add_dataset_to_owner(S2, new_owner, dataset_id)
    IN IF ~a.result.ok
         THEN [state |-> a.state, result |-> Err(ERR_INVALID_PARAMS)]
         ELSE [state |-> a.state, result |-> Ok(TRUE)]

transfer_dataset_body(S, sender, dataset_id, new_owner) ==
  IF ~HasDataset(S, dataset_id)
    THEN [state |-> S, result |-> Err(ERR_DATASET_NOT_FOUND)]
  ELSE LET dataset == S.datasets[dataset_id]
           old_owner == dataset.owner IN
  IF ~check_not_paused(S)
    THEN [state |-> S, result |-> Err(ERR_CONTRACT_PAUSED)]
  ELSE IF ~is_dataset_owner(S, sender, dataset_id)
    THEN [state |-> S, result |-> Err(ERR_NOT_AUTHORIZED)]
  ELSE
    LET S1 == MapSetDataset(S, dataset_id, [dataset EXCEPT !.owner = new_owner])
        S2 == remove_dataset_from_owner(S1, old_owner, dataset_id)
        a == add_dataset_to_owner(S2, new_owner, dataset_id)
    IN IF ~a.result.ok
         THEN [state |-> a.state, result |-> Err(ERR_INVALID_PARAMS)]
         ELSE [state |-> a.state, result |-> Ok(TRUE)]

\* Variant: the transfer keeps its writes when the index insertion fails.
transfer_dataset_no_abort(S, sender, dataset_id, new_owner) ==
  transfer_dataset_body(S, sender, dataset_id, new_owner)

transfer_dataset(S, sender, dataset_id, new_owner) ==
  DefinePublic(S, transfer_dataset_body(S, sender, dataset_id, new_owner))

\* Variant: dataset-counter is set to the imported id, larger or not.
import_dataset_body_counter_set(S, sender, dataset_id, owner, m, g, x) ==
  IF sender # S.admin
    THEN [state |-> S, result |-> Err(ERR_NOT_AUTHORIZED)]
  ELSE IF ~check_not_paused(S)
    THEN [state |-> S, result |-> Err(ERR_CONTRACT_PAUSED)]
  ELSE IF ~(dataset_id > 0)
    THEN [state |-> S, result |-> Err(ERR_INVALID_PARAMS)]
  ELSE IF HasDataset(S, dataset_id)
    THEN [state |-> S, result |-> Err(ERR_DATASET_EXISTS)]
  ELSE IF ~validate_fields(m.name, m.description, m.data_type, g.collection_date,
                           g.altitude_min, g.altitude_max, g.latitude,
                           g.longitude, g.ipfs_hash, x.status)
    THEN [state |-> S, result |-> Err(ERR_INVALID_PARAMS)]
  ELSE
    LET S1 == MapSetDataset(S, dataset_id,
                NewDataset(owner, m, g, x.metadata_frozen, x.created_at, x.status))
        a == add_dataset_to_owner(S1, owner, dataset_id)
    IN IF ~a.result.ok
         THEN [state |-> a.state, result |-> Err(ERR_INVALID_PARAMS)]
         ELSE [state |-> [a.state EXCEPT !.counter = dataset_id],
               result |-> Ok(dataset_id)]

\* Variant: no asserts! that the id is absent; the fields are validated
\* before anything is written.
import_dataset_body_overwrite(S, sender, dataset_id, owner, m, g, x) ==
  IF sender # S.admin
    THEN [state |-> S, result |-> Err(ERR_NOT_AUTHORIZED)]
  ELSE IF ~check_not_paused(S)
    THEN [state |-> S, result |-> Err(ERR_CONTRACT_PAUSED)]
  ELSE IF ~(dataset_id > 0)
    THEN [state |-> S, result |-> Err(ERR_INVALID_PARAMS)]
  ELSE IF ~validate_fields(m.name, m.description, m.data_type, g.collection_date,
                           g.altitude_min, g.altitude_max, g.latitude,
                           g.longitude, g.ipfs_hash, x.status)
    THEN [state |-> S, result |-> Err(ERR_INVALID_PARAMS)]
  ELSE
    LET S1 == MapSetDataset(S, dataset_id,
                NewDataset(owner, m, g, x.metadata_frozen, x.created_at, x.status))
        a == add_dataset_to_owner(S1, owner, dataset_id)
    IN IF ~a.result.ok
         THEN [state |-> a.state, result |-> Err(ERR_INVALID_PARAMS)]
         ELSE [state |-> IF dataset_id > a.state.counter
                           THEN [a.state EXCEPT !.counter = dataset_id]
                           ELSE a.state,
               result |-> Ok(dataset_id)]

import_dataset_body(S, sender, dataset_id, owner, m, g, x) ==
  IF sender # S.admin
    THEN [state |-> S, result |-> Err(ERR_NOT_AUTHORIZED)]
  ELSE IF ~check_not_paused(S)
    THEN [state |-> S, result |-> Err(ERR_CONTRACT_PAUSED)]
  ELSE IF ~(dataset_id > 0)
    THEN [state |-> S, result |-> Err(ERR_INVALID_PARAMS)]
  ELSE IF HasDataset(S, dataset_id)
    THEN [state |-> S, result |-> Err(ERR_DATASET_EXISTS)]
  ELSE IF ~validate_fields(m.name, m.description, m.data_type, g.collection_date,
                           g.altitude_min, g.altitude_max, g.latitude,
                           g.longitude, g.ipfs_hash, x.status)
    THEN [state |-> S, result |-> Err(ERR_INVALID_PARAMS)]
  ELSE
    LET S1 == MapSetDataset(S, dataset_id,
                NewDataset(owner, m, g, x.metadata_frozen, x.created_at, x.status))
        a == add_dataset_to_owner(S1, owner, dataset_id)
    IN IF ~a.result.ok
         THEN [state |-> a.state, result |-> Err(ERR_INVALID_PARAMS)]
         ELSE [state |-> IF dataset_id > a.state.counter
                           THEN [a.state EXCEPT !.counter = dataset_id]
                           ELSE a.state,
               result |-> Ok(dataset_id)]

import_dataset(S, sender, dataset_id, owner, m, g, x) ==
  DefinePublic(S, import_dataset_body(S, sender, dataset_id, owner, m, g, x))

set_contract_admin_body(S, sender, new_admin) ==
  IF sender # S.admin
    THEN [state |-> S, result |-> Err(ERR_NOT_AUTHORIZED)]
    ELSE [state |-> [S EXCEPT !.admin = new_admin], result |-> Ok(new_admin)]

set_contract_admin(S, sender, new_admin) ==
  DefinePublic(S, set_contract_admin_body(S, sender, new_admin))

\* Variant: set-paused passes the pause gate like the other functions.
set_paused_body_gated(S, sender, paused) ==
  IF sender # S.admin
    THEN [state |-> S, result |-> Err(ERR_NOT_AUTHORIZED)]
  ELSE IF ~check_not_paused(S)
    THEN [state |-> S, result |-> Err(ERR_CONTRACT_PAUSED)]
  ELSE [state |-> [S EXCEPT !.paused = paused], result |-> Ok(paused)]

set_paused_body(S, sender, paused) ==
  IF sender # S.admin
    THEN [state |-> S, result |-> Err(ERR_NOT_AUTHORIZED)]
    ELSE [state |-> [S EXCEPT !.paused = paused], result |-> Ok(paused)]

set_paused(S, sender, paused) ==
  DefinePublic(S, set_paused_body(S, sender, paused))

\* ------------------------------------------------- read-only functions

\* An optional uint: none, or (some n).
None == << >>

Some(n) == <<n>>

\* The outcome of a call that aborts on uint overflow: no response at all.
RuntimeAbort == [ok |-> FALSE, val |-> "arithmetic overflow"]

\* (+ a b) on uint fits, or the call aborts.
AddFits(a, b) == a + b <= UintMax

get_contract_admin(S) == Ok(S.admin)

is_contract_paused(S) == Ok(S.paused)

\* ERR-DATASET-NOT-FOUND is itself (err u404); get-dataset wraps it again.
get_dataset(S, dataset_id) ==
  IF HasDataset(S, dataset_id)
    THEN Ok(S.datasets[dataset_id])
    ELSE Err(Err(ERR_DATASET_NOT_FOUND))

get_datasets_by_owner(S, owner) == S.by_owner[owner]

get_dataset_count(S) == Ok(S.counter)

\* (range a b): the uints from a up to, not including, b.
Range(a, b) == [i \in 1..(IF b > a THEN b - a ELSE 0) |-> a + i - 1]

\* Variant: a cursor is handed out also when the page ends at the total.
page_next_offset_inclusive(offset, page, total) ==
  IF ~AddFits(offset, Len(page)) THEN RuntimeAbort
  ELSE LET next == offset + Len(page) IN
       IF next <= total THEN Ok(Some(next)) ELSE Ok(None)

page_next_offset(offset, page, total) ==
  IF ~AddFits(offset, Len(page)) THEN RuntimeAbort
  ELSE LET next == offset + Len(page) IN
       IF next < total THEN Ok(Some(next)) ELSE Ok(None)

\* Variant: the item at position offset is left out.
slice_fold_after_offset(item, acc) ==
  LET idx == acc.idx
      next_idx == idx + 1
  IN IF idx > acc.offset /\ idx < acc.end
       THEN [result |-> Append(acc.result, item), idx |-> next_idx,
             offset |-> acc.offset, end |-> acc.end]
       ELSE [result |-> acc.result, idx |-> next_idx,
             offset |-> acc.offset, end |-> acc.end]

\* idx counts the items folded so far: it stays below the length of the
\* list, far from the top of the uint range, so (+ idx u1) always fits.
slice_fold(item, acc) ==
  LET idx == acc.idx
      next_idx == idx + 1
  IN IF idx >= acc.offset /\ idx < acc.end
       THEN [result |-> Append(acc.result, item), idx |-> next_idx,
             offset |-> acc.offset, end |-> acc.end]
       ELSE [result |-> acc.result, idx |-> next_idx,
             offset |-> acc.offset, end |-> acc.end]

RECURSIVE FoldSlice(_, _)
\* (fold slice-fold items acc): left to right over the list.
FoldSlice(items, acc) ==
  IF items = <<>> THEN acc
  ELSE FoldSlice(Tail(items), slice_fold(Head(items), acc))

\* (ok page), or no response when (+ offset limit) does not fit a uint.
slice_list(items, offset, limit) ==
  IF ~AddFits(offset, limit) THEN RuntimeAbort
  ELSE LET end == offset + limit IN
       Ok(FoldSlice(items, [result |-> << >>, idx |-> 0,
                            offset |-> offset, end |-> end]).result)

\* Variant: the limit is used as given.
get_dataset_ids_page_unclamped(S, offset, limit) ==
  LET total == S.counter IN
  IF total = 0 \/ offset >= total
    THEN Ok([items |-> << >>, next_offset |-> None])
  ELSE LET safe_limit == limit IN
  IF ~AddFits(offset, safe_limit) THEN RuntimeAbort
  ELSE LET end == offset + safe_limit
           last == IF end > total THEN total ELSE end IN
  IF ~AddFits(offset, 1) \/ ~AddFits(last, 1) THEN RuntimeAbort
  ELSE LET items == Range(offset + 1, last + 1)
           next == page_next_offset(offset, items, total) IN
  IF ~next.ok THEN RuntimeAbort
  ELSE Ok([items |-> items, next_offset |-> next.val])

get_dataset_ids_page(S, offset, limit) ==
  LET total == S.counter IN
  IF total = 0 \/ offset >= total
    THEN Ok([items |-> << >>, next_offset |-> None])
  ELSE LET safe_limit == IF limit > MAX_PAGE_SIZE THEN MAX_PAGE_SIZE ELSE limit IN
  IF ~AddFits(offset, safe_limit) THEN RuntimeAbort
  ELSE LET end == offset + safe_limit
           last == IF end > total THEN total ELSE end IN
  IF ~AddFits(offset, 1) \/ ~AddFits(last, 1) THEN RuntimeAbort
  ELSE LET items == Range(offset + 1, last + 1)
           next == page_next_offset(offset, items, total) IN
  IF ~next.ok THEN RuntimeAbort
  ELSE Ok([items |-> items, next_offset |-> next.val])

get_datasets_by_owner_page(S, owner, offset, limit) ==
  LET all == get_owner_dataset_ids(S, owner)
      safe_limit == IF limit > MAX_PAGE_SIZE THEN MAX_PAGE_SIZE ELSE limit
      page == slice_list(all, offset, safe_limit)
  IN IF ~page.ok THEN RuntimeAbort
     ELSE LET next == page_next_offset(offset, page.val, Len(all)) IN
          IF ~next.ok THEN RuntimeAbort
          ELSE Ok([items |-> page.val, next_offset |-> next.val])

\* ------------------------------------------------------------ the machine

Init ==
  /\ datasets = << >>
  /\ datasets_by_owner = [p \in Principals |-> << >>]
  /\ dataset_counter = 0
  /\ contract_admin = Deployer
  /\ contract_paused = FALSE

\* One public call: the state it commits.  A call that fails commits
\* nothing, so it is a step that leaves every variable as it was.
Call(out) ==
  /\ datasets' = out.state.datasets
  /\ datasets_by_owner' = out.state.by_owner
  /\ dataset_counter' = out.state.counter
  /\ contract_admin' = out.state.admin
  /\ contract_paused' = out.state.paused

\* The actions take the sets their arguments are drawn from; `cap` bounds
\* dataset-counter, and identifiers u0..cap are passed as arguments.
Register(cap, inputs) ==
  /\ dataset_counter < cap
  /\ \E sender \in Principals, r \in inputs, h \in BlockHeights :
       Call(register_dataset(Cur, sender, r[1], r[2], h))

Update(cap, inputs) ==
  \E sender \in Principals, id \in 0..cap, m \in inputs :
    Call(update_dataset_metadata(Cur, sender, id, m))

Freeze(cap) ==
  \E sender \in Principals, id \in 0..cap :
    Call(freeze_dataset_metadata(Cur, sender, id))

Transfer(cap) ==
  \E sender \in Principals, id \in 0..cap, new_owner \in Principals :
    Call(transfer_dataset(Cur, sender, id, new_owner))

Import(cap, inputs) ==
  \E sender \in Principals, id \in 0..cap, owner \in Principals, i \in inputs :
    Call(import_dataset(Cur, sender, id, owner, i[1], i[2], i[3]))

RegisterDataset == Register(MaxId, RegisterInputs)

UpdateDatasetMetadata == Update(MaxId, MetaInputs)

FreezeDatasetMetadata == Freeze(MaxId)

TransferDataset == Transfer(MaxId)

ImportDataset == Import(MaxId, ImportInputs)

SetContractAdmin ==
  \E sender \in Principals, new_admin \in Principals :
    Call(set_contract_admin(Cur, sender, new_admin))

SetPaused ==
  \E sender \in Principals, paused \in BOOLEAN :
    Call(set_paused(Cur, sender, paused))

Next ==
  \/ RegisterDataset
  \/ UpdateDatasetMetadata
  \/ FreezeDatasetMetadata
  \/ TransferDataset
  \/ ImportDataset
  \/ SetContractAdmin
  \/ SetPaused

\* Every operation, on few identifiers and with every kind of argument.
Spec == Init /\ [][Next]_vars

IndexRegister == Register(MaxIndexId, IndexRegisterInputs)

IndexTransfer == Transfer(MaxIndexId)

IndexImport == Import(MaxIndexId, IndexImportInputs)

IndexSetPaused ==
  \E sender \in Principals, paused \in BOOLEAN :
    Call(set_paused(Cur, sender, paused))

NextIndex ==
  \/ IndexRegister
  \/ IndexTransfer
  \/ IndexImport
  \/ IndexSetPaused

\* The operations that write datasets-by-owner or the owner field, and the
\* pause switch, on enough identifiers to fill an owner's index.
SpecIndex == Init /\ [][NextIndex]_vars

RegisterOnlyRegister == Register(MaxId, RegisterInputs)

RegisterOnlyUpdate == Update(MaxId, MetaInputs)

RegisterOnlyFreeze == Freeze(MaxId)

RegisterOnlyTransfer == Transfer(MaxId)

RegisterOnlySetAdmin ==
  \E sender \in Principals, new_admin \in Principals :
    Call(set_contract_admin(Cur, sender, new_admin))

RegisterOnlySetPaused ==
  \E sender \in Principals, paused \in BOOLEAN :
    Call(set_paused(Cur, sender, paused))

NextRegisterOnly ==
  \/ RegisterOnlyRegister
  \/ RegisterOnlyUpdate
  \/ RegisterOnlyFreeze
  \/ RegisterOnlyTransfer
  \/ RegisterOnlySetAdmin
  \/ RegisterOnlySetPaused

\* Every operation but import-dataset: records come from register-dataset only.
SpecRegisterOnly == Init /\ [][NextRegisterOnly]_vars

\* ---------------------------------------------------------- properties

\* How often x occurs in a list.
Count(list, x) == Cardinality({ i \in 1..Len(list) : list[i] = x })

\* The list without every occurrence of x, order kept.
Without(list, x) == SelectSeq(list, LAMBDA e : e # x)

\* Identifier arguments worth trying in a state: u0, every stored
\* identifier, and the absent ones up to counter + 1.
ArgIds == 0..(dataset_counter + 1) \cup DOMAIN datasets

\* C1: each stored record's id occurs exactly once in the index of its
\* current owner and in no other owner's index.
C1_RecordIndexedOnceByOwner ==
  \A id \in DOMAIN datasets :
    \A p \in Principals :
      Count(datasets_by_owner[p], id) = (IF p = datasets[id].owner THEN 1 ELSE 0)

\* A record can change hands: two records of two owners, one index each,
\* where a transfer of the second to the first owner's index succeeds.
C1_Witness ==
  \E i \in DOMAIN datasets, j \in DOMAIN datasets :
    /\ datasets[i].owner # datasets[j].owner
    /\ datasets_by_owner[datasets[i].owner] = <<i>>
    /\ transfer_dataset(Cur, datasets[j].owner, j, datasets[i].owner).result = Ok(TRUE)

\* C2: every owner's index has at most MAX-OWNER-DATASETS entries and no
\* identifier twice.
C2_IndexBoundedNoDuplicates ==
  \A p \in Principals :
    /\ Len(datasets_by_owner[p]) <= MAX_OWNER_DATASETS
    /\ \A i \in 1..Len(datasets_by_owner[p]) :
         Count(datasets_by_owner[p], datasets_by_owner[p][i]) = 1

\* An owner's index is full while a record of another owner exists.
C2_Witness ==
  \E p \in Principals, id \in DOMAIN datasets :
    /\ Len(datasets_by_owner[p]) = MAX_OWNER_DATASETS
    /\ datasets[id].owner # p

\* A call that returns an error has committed nothing.
FailedCallKeepsState(out) == ~out.result.ok => out.state = Cur

FullWithout(new_owner, id) ==
  /\ Len(datasets_by_owner[new_owner]) = MAX_OWNER_DATASETS
  /\ ~Contains(datasets_by_owner[new_owner], id)

\* After the call the record has its old owner and both indexes are as before.
TransferUndone(out, id, old_owner, new_owner) ==
  /\ out.state.datasets[id].owner = old_owner
  /\ out.state.by_owner[old_owner] = datasets_by_owner[old_owner]
  /\ out.state.by_owner[new_owner] = datasets_by_owner[new_owner]

\* C4 as stated: a transfer by the owner into a full index that does not
\* hold id fails with InvalidParams and leaves owner and both indexes.
C4_FullIndexTransferInvalidParams ==
  \A id \in DOMAIN datasets, new_owner \in Principals :
    LET old_owner == datasets[id].owner
        out == transfer_dataset(Cur, old_owner, id, new_owner)
    IN FullWithout(new_owner, id) =>
         /\ out.result = Err(ERR_INVALID_PARAMS)
         /\ TransferUndone(out, id, old_owner, new_owner)

\* C4 amended: the transfer fails, with InvalidParams when the registry is
\* not paused and with ContractPaused when it is, and leaves the record's
\* owner, the old owner's index and the new owner's index as they were.
C4_FullIndexTransferFails ==
  \A id \in DOMAIN datasets, new_owner \in Principals :
    LET old_owner == datasets[id].owner
        out == transfer_dataset(Cur, old_owner, id, new_owner)
    IN FullWithout(new_owner, id) =>
         /\ out.result = (IF contract_paused THEN Err(ERR_CONTRACT_PAUSED)
                                            ELSE Err(ERR_INVALID_PARAMS))
         /\ TransferUndone(out, id, old_owner, new_owner)

\* Unpaused, an owner transfers into a full index and gets InvalidParams.
C4_Witness ==
  \E id \in DOMAIN datasets, new_owner \in Principals :
    /\ ~contract_paused
    /\ FullWithout(new_owner, id)
    /\ transfer_dataset(Cur, datasets[id].owner, id, new_owner).result
         = Err(ERR_INVALID_PARAMS)

\* C5: a successful transfer to another principal sets the record's owner,
\* takes id out of the old owner's index keeping the order of the rest, and
\* puts id last in the new owner's index, where it occurs once.
C5_TransferMovesIdKeepingOrder ==
  \A sender \in Principals, id \in DOMAIN datasets, new_owner \in Principals :
    LET old_owner == datasets[id].owner
        out == transfer_dataset(Cur, sender, id, new_owner)
    IN (out.result.ok /\ new_owner # old_owner) =>
         /\ out.state.datasets[id].owner = new_owner
         /\ out.state.by_owner[old_owner] = Without(datasets_by_owner[old_owner], id)
         /\ out.state.by_owner[new_owner] = Append(datasets_by_owner[new_owner], id)
         /\ Count(out.state.by_owner[new_owner], id) = 1

\* The middle one of three identifiers goes to an owner who has one already.
C5_Witness ==
  \E id \in DOMAIN datasets, new_owner \in Principals :
    LET old_owner == datasets[id].owner IN
    /\ new_owner # old_owner
    /\ Len(datasets_by_owner[old_owner]) = 3
    /\ datasets_by_owner[old_owner][2] = id
    /\ Len(datasets_by_owner[new_owner]) = 1
    /\ transfer_dataset(Cur, old_owner, id, new_owner).result.ok

\* C6: once a record's metadata-frozen is true it is true in every later
\* state (and the record is still there).
C6_FrozenStaysFrozen ==
  [][\A id \in DOMAIN datasets :
       datasets[id].metadata_frozen =>
         (id \in DOMAIN datasets' /\ datasets'[id].metadata_frozen)]_vars

\* A frozen record whose owner can freeze it again, and which the admin
\* tries to import anew with metadata-frozen false.
C6_Witness ==
  \E id \in DOMAIN datasets :
    /\ datasets[id].metadata_frozen
    /\ freeze_dataset_metadata(Cur, datasets[id].owner, id).result = Ok(TRUE)
    /\ import_dataset(Cur, contract_admin, id, datasets[id].owner,
                      MetaOk, GeoOk, AdminOk).result = Err(ERR_DATASET_EXISTS)

\* The descriptive metadata of a record.
MetaOf(d) ==
  [name |-> d.name, description |-> d.description, data_type |-> d.data_type,
   is_public |-> d.is_public]

\* C7: from the state in which a record is frozen on, its name,
\* description, data-type and is-public keep their values, whoever calls.
C7_FrozenMetadataKept ==
  [][\A id \in DOMAIN datasets :
       datasets[id].metadata_frozen =>
         (id \in DOMAIN datasets' /\ MetaOf(datasets'[id]) = MetaOf(datasets[id]))]_vars

\* The owner of a frozen record asks for another name and is refused.
C7_Witness ==
  \E id \in DOMAIN datasets, m \in MetaInputs :
    /\ datasets[id].metadata_frozen
    /\ m.name # datasets[id].name /\ m.name # ""
    /\ update_dataset_metadata(Cur, datasets[id].owner, id, m).result
         = Err(ERR_METADATA_FROZEN)

\* C8 as stated: update-dataset-metadata on a frozen record fails with
\* MetadataFrozen, whatever the values and whoever calls.
C8_FrozenUpdateMetadataFrozen ==
  \A sender \in Principals, id \in DOMAIN datasets, m \in MetaInputs :
    datasets[id].metadata_frozen =>
      update_dataset_metadata(Cur, sender, id, m).result = Err(ERR_METADATA_FROZEN)

\* C8 amended: update-dataset-metadata on a frozen record always fails and
\* changes nothing, whatever the values (equal to the stored ones, other,
\* or empty); the error is ContractPaused when the registry is paused,
\* else NotAuthorized when the caller is not the owner, else MetadataFrozen.
C8_FrozenUpdateFails ==
  \A sender \in Principals, id \in DOMAIN datasets, m \in MetaInputs :
    LET out == update_dataset_metadata(Cur, sender, id, m) IN
    datasets[id].metadata_frozen =>
      /\ out.state = Cur
      /\ out.result =
           (IF contract_paused THEN Err(ERR_CONTRACT_PAUSED)
            ELSE IF sender # datasets[id].owner THEN Err(ERR_NOT_AUTHORIZED)
            ELSE Err(ERR_METADATA_FROZEN))

\* Unpaused, the owner of a frozen record passes the stored values and
\* gets MetadataFrozen.
C8_Witness ==
  \E id \in DOMAIN datasets :
    /\ datasets[id].metadata_frozen
    /\ ~contract_paused
    /\ MetaOf(datasets[id]) \in MetaInputs
    /\ update_dataset_metadata(Cur, datasets[id].owner, id, MetaOf(datasets[id])).result
         = Err(ERR_METADATA_FROZEN)

\* The call is refused with NotAuthorized and commits nothing.
Refused(out) == out.result = Err(ERR_NOT_AUTHORIZED) /\ out.state = Cur

\* Some update, freeze or transfer of id by sender succeeds in state S.
MaySucceed(S, sender, id) ==
  \/ \E m \in MetaInputs : update_dataset_metadata(S, sender, id, m).result.ok
  \/ freeze_dataset_metadata(S, sender, id).result.ok
  \/ \E n \in Principals : transfer_dataset(S, sender, id, n).result.ok

\* C9: unpaused, update, freeze and transfer of an existing record by
\* anyone but its current owner fail with NotAuthorized and change nothing;
\* after a successful transfer only the new owner can succeed with them.
C9_OnlyOwnerMutates ==
  \A id \in DOMAIN datasets :
    /\ \A sender \in Principals :
         (~contract_paused /\ sender # datasets[id].owner) =>
           /\ \A m \in MetaInputs : Refused(update_dataset_metadata(Cur, sender, id, m))
           /\ Refused(freeze_dataset_metadata(Cur, sender, id))
           /\ \A n \in Principals : Refused(transfer_dataset(Cur, sender, id, n))
    /\ \A new_owner \in Principals :
         LET t == transfer_dataset(Cur, datasets[id].owner, id, new_owner) IN
         t.result.ok =>
           \A sender \in Principals :
             MaySucceed(t.state, sender, id) => sender = new_owner

\* The admin, not owning the record, is refused; the owner hands the record
\* over and is refused from then on, while the new owner is not.
C9_Witness ==
  \E id \in DOMAIN datasets, new_owner \in Principals :
    LET old_owner == datasets[id].owner
        t == transfer_dataset(Cur, old_owner, id, new_owner)
    IN /\ ~contract_paused
       /\ contract_admin # old_owner
       /\ Refused(update_dataset_metadata(Cur, contract_admin, id, MetaOk))
       /\ new_owner # old_owner
       /\ t.result.ok
       /\ freeze_dataset_metadata(t.state, old_owner, id).result = Err(ERR_NOT_AUTHORIZED)
       /\ MaySucceed(t.state, new_owner, id)

\* The call fails and commits nothing.
Blocked(out) == ~out.result.ok /\ out.state = Cur

\* C10: while paused, no register, update, freeze or transfer by a caller
\* other than the admin succeeds or changes state; made by the record's
\* owner (for register: by anyone) with valid arguments it fails with
\* ContractPaused.
C10_PausedBlocksNonAdmin ==
  contract_paused =>
    \A sender \in Principals \ {contract_admin} :
      /\ \A r \in RegisterInputs, h \in BlockHeights :
           LET out == register_dataset(Cur, sender, r[1], r[2], h) IN
           /\ Blocked(out)
           /\ r = <<MetaOk, GeoOk>> => out.result = Err(ERR_CONTRACT_PAUSED)
      /\ \A id \in ArgIds :
           /\ \A m \in MetaInputs : Blocked(update_dataset_metadata(Cur, sender, id, m))
           /\ Blocked(freeze_dataset_metadata(Cur, sender, id))
           /\ \A n \in Principals : Blocked(transfer_dataset(Cur, sender, id, n))
      /\ \A id \in DOMAIN datasets :
           datasets[id].owner = sender =>
             /\ update_dataset_metadata(Cur, sender, id, MetaOk).result
                  = Err(ERR_CONTRACT_PAUSED)
             /\ freeze_dataset_metadata(Cur, sender, id).result
                  = Err(ERR_CONTRACT_PAUSED)
             /\ \A n \in Principals :
                  transfer_dataset(Cur, sender, id, n).result = Err(ERR_CONTRACT_PAUSED)

\* Paused, with an unfrozen record whose owner is not the admin: the
\* owner's update is turned down with ContractPaused.
C10_Witness ==
  \E id \in DOMAIN datasets :
    /\ contract_paused
    /\ datasets[id].owner # contract_admin
    /\ ~datasets[id].metadata_frozen
    /\ update_dataset_metadata(Cur, datasets[id].owner, id, MetaOk).result
         = Err(ERR_CONTRACT_PAUSED)

\* The state S with the pause flag set to b.
WithPaused(S, b) == [S EXCEPT !.paused = b]

\* The call by the admin gives the response, and but for the pause flag the
\* state, that it gives on the unpaused registry.
AsUnpaused(paused_out, unpaused_out) ==
  /\ paused_out.result = unpaused_out.result
  /\ WithPaused(paused_out.state, FALSE) = WithPaused(unpaused_out.state, FALSE)

\* C11: while paused, register, update, freeze, transfer and import called
\* by the admin are never rejected with ContractPaused and behave as they
\* would with paused false.
C11_AdminBypassesPause ==
  contract_paused =>
    LET a == contract_admin
        U == WithPaused(Cur, FALSE) IN
    /\ \A r \in RegisterInputs, h \in BlockHeights :
         AsUnpaused(register_dataset(Cur, a, r[1], r[2], h),
                    register_dataset(U, a, r[1], r[2], h))
    /\ \A id \in ArgIds, m \in MetaInputs :
         AsUnpaused(update_dataset_metadata(Cur, a, id, m),
                    update_dataset_metadata(U, a, id, m))
    /\ \A id \in ArgIds :
         AsUnpaused(freeze_dataset_metadata(Cur, a, id),
                    freeze_dataset_metadata(U, a, id))
    /\ \A id \in ArgIds, n \in Principals :
         AsUnpaused(transfer_dataset(Cur, a, id, n), transfer_dataset(U, a, id, n))
    /\ \A id \in ArgIds, owner \in Principals, i \in ImportInputs :
         AsUnpaused(import_dataset(Cur, a, id, owner, i[1], i[2], i[3]),
                    import_dataset(U, a, id, owner, i[1], i[2], i[3]))

\* C12: a successful register returns counter + 1 and leaves get-dataset-count
\* at that id; with no import, only a successful register moves the counter,
\* so the count is the number of successful registers and every id from 1
\* to the count can be fetched.
C12_RegisterCountsByOne ==
  /\ [](/\ \A sender \in Principals, r \in RegisterInputs, h \in BlockHeights :
             LET out == register_dataset(Cur, sender, r[1], r[2], h) IN
             out.result.ok =>
               /\ out.result = Ok(dataset_counter + 1)
               /\ get_dataset_count(out.state) = Ok(dataset_counter + 1)
               /\ get_dataset(out.state, dataset_counter + 1).ok
        /\ get_dataset_count(Cur) = Ok(Cardinality(DOMAIN datasets))
        /\ \A i \in 1..dataset_counter : get_dataset(Cur, i).ok)
  /\ [][(dataset_counter' # dataset_counter \/ DOMAIN datasets' # DOMAIN datasets) =>
          \E sender \in Principals, r \in RegisterInputs, h \in BlockHeights :
            LET out == register_dataset(Cur, sender, r[1], r[2], h) IN
            /\ out.result.ok
            /\ dataset_counter' = dataset_counter + 1
            /\ datasets' = out.state.datasets]_vars

\* Two registers have succeeded and a third would return 3.
C12_Witness ==
  /\ get_dataset_count(Cur) = Ok(2)
  /\ get_dataset(Cur, 1).ok /\ get_dataset(Cur, 2).ok
  /\ \E sender \in Principals, h \in BlockHeights :
       register_dataset(Cur, sender, MetaOk, GeoOk, h).result = Ok(3)

PageOffsets == 0..(dataset_counter + 1) \cup {UintMax - 1, UintMax}

PageLimits == 0..(MAX_PAGE_SIZE + 1) \cup {UintMax}

\* C14: every identifier in the items of get-dataset-ids-page is the
\* identifier of a stored record.
C14_PageIdsAreStored ==
  \A offset \in PageOffsets, limit \in PageLimits :
    LET page == get_dataset_ids_page(Cur, offset, limit) IN
    page.ok =>
      \A i \in 1..Len(page.val.items) : get_dataset(Cur, page.val.items[i]).ok

\* Only a successful register or import writes the counter: the other
\* functions, and failed calls, return a state with the counter as it was.
OthersKeepCounter ==
  \A sender \in Principals :
    /\ \A r \in RegisterInputs, h \in BlockHeights :
         LET out == register_dataset(Cur, sender, r[1], r[2], h) IN
         out.state.counter >= dataset_counter
           /\ (~out.result.ok => out.state.counter = dataset_counter)
    /\ \A id \in 0..(dataset_counter + 2), owner \in Principals, i \in ImportInputs :
         LET out == import_dataset(Cur, sender, id, owner, i[1], i[2], i[3]) IN
         out.state.counter >= dataset_counter
           /\ (~out.result.ok => out.state.counter = dataset_counter)
    /\ \A id \in ArgIds :
         /\ \A m \in MetaInputs :
              update_dataset_metadata(Cur, sender, id, m).state.counter = dataset_counter
         /\ freeze_dataset_metadata(Cur, sender, id).state.counter = dataset_counter
         /\ \A n \in Principals :
              transfer_dataset(Cur, sender, id, n).state.counter = dataset_counter
    /\ \A n \in Principals :
         set_contract_admin(Cur, sender, n).state.counter = dataset_counter
    /\ \A b \in BOOLEAN :
         set_paused(Cur, sender, b).state.counter = dataset_counter

\* C15: the counter never decreases across any operation, successful or
\* failed, and only a successful register or import changes it.
C15_CounterNeverDecreases ==
  /\ []OthersKeepCounter
  /\ [][dataset_counter' >= dataset_counter]_vars

\* The counter stands at 2 with identifier 1 absent: the admin's import of
\* 1 succeeds below the counter.
C15_Witness ==
  /\ dataset_counter = 2
  /\ ~HasDataset(Cur, 1)
  /\ import_dataset(Cur, contract_admin, 1, contract_admin, MetaOk, GeoOk, AdminOk).result.ok

\* The larger of two numbers.
Max(a, b) == IF a >= b THEN a ELSE b

\* C16: a successful import of id sets the counter to max(counter, id).
C16_ImportRaisesCounterToMax ==
  \A sender \in Principals, id \in 0..(dataset_counter + 2),
     owner \in Principals, i \in ImportInputs :
    LET out == import_dataset(Cur, sender, id, owner, i[1], i[2], i[3]) IN
    out.result.ok =>
      /\ out.state.counter = Max(dataset_counter, id)
      /\ get_dataset_count(out.state) = Ok(Max(dataset_counter, id))

\* With the counter at 1, an import of 3 raises it to 3; with the counter
\* at 2 and 1 absent, an import of 1 leaves it.
C16_Witness ==
  \/ /\ dataset_counter = 1
     /\ LET out == import_dataset(Cur, contract_admin, 3, contract_admin, MetaOk, GeoOk, AdminOk)
        IN out.result.ok /\ out.state.counter = 3
  \/ /\ dataset_counter = 2
     /\ LET out == import_dataset(Cur, contract_admin, 1, contract_admin, MetaOk, GeoOk, AdminOk)
        IN out.result.ok /\ out.state.counter = 2

\* C17 as stated: an import of an identifier that is in the store fails
\* with AlreadyExists and overwrites nothing.
C17_ImportExistingAlreadyExists ==
  \A sender \in Principals, id \in DOMAIN datasets, owner \in Principals, i \in ImportInputs :
    LET out == import_dataset(Cur, sender, id, owner, i[1], i[2], i[3]) IN
    out.result = Err(ERR_DATASET_EXISTS) /\ out.state = Cur

\* C17 amended: an import of an identifier that is in the store always
\* fails and overwrites nothing; called by the admin on an unpaused
\* registry it fails with AlreadyExists, whatever the fields.
C17_ImportExistingFails ==
  \A sender \in Principals, id \in DOMAIN datasets, owner \in Principals, i \in ImportInputs :
    LET out == import_dataset(Cur, sender, id, owner, i[1], i[2], i[3]) IN
    /\ ~out.result.ok
    /\ out.state = Cur
    /\ (sender = contract_admin /\ ~contract_paused) =>
         out.result = Err(ERR_DATASET_EXISTS)

\* Unpaused, the admin imports a stored identifier for another owner.
C17_Witness ==
  \E id \in DOMAIN datasets, owner \in Principals :
    /\ ~contract_paused
    /\ owner # datasets[id].owner
    /\ import_dataset(Cur, contract_admin, id, owner, MetaOk, GeoOk, AdminOk).result
         = Err(ERR_DATASET_EXISTS)

\* The fields of an import pass validate-fields.
ImportValid(i) ==
  validate_fields(i[1].name, i[1].description, i[1].data_type, i[2].collection_date, i[2].altitude_min, i[2].altitude_max, i[2].latitude, i[2].longitude, i[2].ipfs_hash, i[3].status)

\* C18: an import by the admin with id 0 or with fields that fail the
\* validator fails with InvalidParams, the id stored or not; an import by
\* anyone else fails with NotAuthorized, paused or not.
C18_ImportInvalidParams ==
  \A sender \in Principals, id \in 0..(dataset_counter + 1),
     owner \in Principals, i \in ImportInputs :
    LET out == import_dataset(Cur, sender, id, owner, i[1], i[2], i[3]) IN
    /\ (sender = contract_admin /\ (id = 0 \/ ~ImportValid(i))) =>
         out.result = Err(ERR_INVALID_PARAMS)
    /\ sender # contract_admin => out.result = Err(ERR_NOT_AUTHORIZED)

\* The call succeeds.
Succeeds(out) == out.result.ok

\* C19: set-contract-admin and set-paused succeed for the admin only and
\* otherwise fail with NotAuthorized, leaving admin and paused; after the
\* admin hands over to someone else, the previous admin's set-admin,
\* set-paused and import fail with NotAuthorized and the new admin's succeed.
C19_AdminOnly ==
  \A sender \in Principals, n \in Principals, b \in BOOLEAN :
    LET a == set_contract_admin(Cur, sender, n)
        q == set_paused(Cur, sender, b)
        T == a.state
    IN /\ Succeeds(a) <=> sender = contract_admin
       /\ Succeeds(q) <=> sender = contract_admin
       /\ ~Succeeds(a) => Refused(a)
       /\ ~Succeeds(q) => Refused(q)
       /\ (Succeeds(a) /\ n # sender) =>
            /\ \A m \in Principals, c \in BOOLEAN :
                 /\ set_contract_admin(T, sender, m).result = Err(ERR_NOT_AUTHORIZED)
                 /\ set_paused(T, sender, c).result = Err(ERR_NOT_AUTHORIZED)
                 /\ Succeeds(set_contract_admin(T, n, m))
                 /\ Succeeds(set_paused(T, n, c))
            /\ \A id \in 1..(dataset_counter + 1), owner \in Principals :
                 /\ import_dataset(T, sender, id, owner, MetaOk, GeoOk, AdminOk).result
                      = Err(ERR_NOT_AUTHORIZED)
                 /\ (~HasDataset(T, id) /\ Len(T.by_owner[owner]) < MAX_OWNER_DATASETS) =>
                      Succeeds(import_dataset(T, n, id, owner, MetaOk, GeoOk, AdminOk))

EffectiveLimit(limit) == IF limit > MAX_PAGE_SIZE THEN MAX_PAGE_SIZE ELSE limit

\* The elements of a list at the 0-based positions offset .. offset + n - 1
\* that exist, in the order of the list.
SliceOf(list, offset, n) ==
  LET hi == IF offset + n > Len(list) THEN Len(list) ELSE offset + n IN
  [k \in 1..(IF hi > offset THEN hi - offset ELSE 0) |-> list[offset + k]]

\* C22: get-datasets-by-owner-page returns as items the elements of the
\* owner's index at the 0-based positions offset .. offset + min(limit,
\* MAX-PAGE-SIZE) - 1 that exist, in index order (none when offset is at or
\* beyond the length of the index), and the cursor offset + (number of
\* items) when that is below the length of the index, else none.
C22_OwnerPageIsSlice ==
  \A owner \in Principals, offset \in PageOffsets, limit \in PageLimits :
    LET all == datasets_by_owner[owner]
        page == get_datasets_by_owner_page(Cur, owner, offset, limit)
        items == SliceOf(all, offset, EffectiveLimit(limit))
    IN /\ page.ok
       /\ page.val.items = items
       /\ offset >= Len(all) => page.val.items = << >>
       /\ page.val.next_offset =
            (IF offset + Len(items) < Len(all) THEN Some(offset + Len(items)) ELSE None)

\* C23: get-dataset-ids-page and get-datasets-by-owner-page have no failure
\* outcome: for every offset and limit of the uint range, also where offset
\* + limit is beyond the largest uint, they return a result value and never
\* abort on arithmetic overflow.
C23_PagesNeverAbort ==
  \A offset \in PageOffsets, limit \in PageLimits :
    /\ get_dataset_ids_page(Cur, offset, limit).ok
    /\ \A owner \in Principals :
         get_datasets_by_owner_page(Cur, owner, offset, limit).ok

\* Coordinates on, just inside and just outside each bound of the
\* validator, with every other field valid.
BoundaryGeo ==
  { [GeoOk EXCEPT !.latitude = lat, !.longitude = lon] :
      lat \in {-90000001, -90000000, 40000000, 90000000, 90000001},
      lon \in {-180000001, -180000000, -74000000, 180000000, 180000001} }

\* -90 degrees <= latitude <= 90 degrees and -180 degrees <= longitude <=
\* 180 degrees, in micro-degrees.
CoordinatesInRange(g) ==
  /\ -90000000 <= g.latitude /\ g.latitude <= 90000000
  /\ -180000000 <= g.longitude /\ g.longitude <= 180000000

\* C24 as stated: with every other field valid, register accepts exactly
\* the coordinates within the inclusive bounds; a value out of range fails
\* with InvalidParams and creates no record.
C24_RegisterAcceptsInRange ==
  \A sender \in Principals, g \in BoundaryGeo, h \in BlockHeights :
    LET out == register_dataset(Cur, sender, MetaOk, g, h) IN
    /\ out.result.ok <=> CoordinatesInRange(g)
    /\ ~CoordinatesInRange(g) => (out.result = Err(ERR_INVALID_PARAMS) /\ out.state = Cur)

\* C24 amended: with every other field valid, a register with a coordinate
\* out of range always fails and creates no record, and with InvalidParams
\* when the registry is not paused; when the registry is not paused and the
\* caller's index is below capacity, register accepts exactly the
\* coordinates within the inclusive bounds.
C24_RegisterCoordinateBounds ==
  \A sender \in Principals, g \in BoundaryGeo, h \in BlockHeights :
    LET out == register_dataset(Cur, sender, MetaOk, g, h) IN
    /\ ~CoordinatesInRange(g) => (~out.result.ok /\ out.state = Cur)
    /\ (~contract_paused /\ ~CoordinatesInRange(g)) =>
         out.result = Err(ERR_INVALID_PARAMS)
    /\ (~contract_paused /\ Len(datasets_by_owner[sender]) < MAX_OWNER_DATASETS) =>
         (out.result.ok <=> CoordinatesInRange(g))

\* Unpaused, a caller below capacity registers on each of the four bounds
\* and is turned down one micro-degree beyond each.
C24_Witness ==
  \E sender \in Principals, h \in BlockHeights :
    /\ ~contract_paused
    /\ dataset_counter >= 1
    /\ \A lat \in {-90000000, 90000000}, lon \in {-180000000, 180000000} :
         register_dataset(Cur, sender, MetaOk,
           [GeoOk EXCEPT !.latitude = lat, !.longitude = lon], h).result
             = Ok(dataset_counter + 1)
    /\ \A lat \in {-90000001, 90000001} :
         register_dataset(Cur, sender, MetaOk, [GeoOk EXCEPT !.latitude = lat], h).result
           = Err(ERR_INVALID_PARAMS)
    /\ \A lon \in {-180000001, 180000001} :
         register_dataset(Cur, sender, MetaOk, [GeoOk EXCEPT !.longitude = lon], h).result
           = Err(ERR_INVALID_PARAMS)

\* A field other than the coordinates breaks a rule of the validator: an
\* empty text, collection-date 0, or altitude-max below altitude-min.
FieldsRejected(m, g) ==
  \/ m.name = "" \/ m.description = "" \/ m.data_type = ""
  \/ g.collection_date = 0
  \/ g.altitude_max < g.altitude_min

\* The measurement fields g with another ipfs-hash.
WithHash(g, hash) == [g EXCEPT !.ipfs_hash = hash]

\* Ipfs-hash arguments: the empty one and one as the tests pass it.
HashInputs == {"", "QmHash"}

\* C25 as stated: register fails with InvalidParams, creating no record and
\* not advancing the counter, whenever name, description or data-type is
\* empty, collection-date is 0 or altitude-max < altitude-min; an empty
\* ipfs-hash alone never causes rejection.
C25_RegisterInvalidParams ==
  \A sender \in Principals, r \in RegisterInputs, h \in BlockHeights :
    /\ FieldsRejected(r[1], r[2]) =>
         \A hash \in HashInputs :
           LET out == register_dataset(Cur, sender, r[1], WithHash(r[2], hash), h) IN
           out.result = Err(ERR_INVALID_PARAMS) /\ out.state = Cur
    /\ register_dataset(Cur, sender, r[1], WithHash(r[2], ""), h).result
         = register_dataset(Cur, sender, r[1], WithHash(r[2], "QmHash"), h).result

\* C25 amended: such a register always fails, creating no record and not
\* advancing the counter, and with InvalidParams when the registry is not
\* paused; the response to a register does not depend on whether the
\* ipfs-hash is empty.
C25_RegisterRejectsFields ==
  \A sender \in Principals, r \in RegisterInputs, h \in BlockHeights :
    /\ FieldsRejected(r[1], r[2]) =>
         \A hash \in HashInputs :
           LET out == register_dataset(Cur, sender, r[1], WithHash(r[2], hash), h) IN
           /\ ~out.result.ok
           /\ out.state = Cur
           /\ ~contract_paused => out.result = Err(ERR_INVALID_PARAMS)
    /\ register_dataset(Cur, sender, r[1], WithHash(r[2], ""), h).result
         = register_dataset(Cur, sender, r[1], WithHash(r[2], "QmHash"), h).result

\* Unpaused, with a record stored: each of the five broken fields is turned
\* down with InvalidParams, and the valid fields with an empty ipfs-hash
\* are registered.
C25_Witness ==
  \E sender \in Principals, h \in BlockHeights :
    /\ ~contract_paused
    /\ dataset_counter >= 1
    /\ \A r \in RegisterInputs :
         FieldsRejected(r[1], r[2]) =>
           register_dataset(Cur, sender, r[1], r[2], h).result = Err(ERR_INVALID_PARAMS)
    /\ Cardinality({ r \in RegisterInputs : FieldsRejected(r[1], r[2]) }) = 5
    /\ register_dataset(Cur, sender, MetaOk, WithHash(GeoOk, ""), h).result
         = Ok(dataset_counter + 1)

\* The constraints of the validator on a stored record.
SatisfiesValidator(d) ==
  /\ d.name # "" /\ d.description # "" /\ d.data_type # ""
  /\ d.collection_date > 0
  /\ d.altitude_min <= d.altitude_max
  /\ CoordinatesInRange(d)
  /\ d.status \in {"active", "deprecated"}

\* One of the three texts of the metadata is empty.
EmptyText(m) == m.name = "" \/ m.description = "" \/ m.data_type = ""

\* C26 as stated: every stored record satisfies the validator, and
\* update-dataset-metadata of a stored record with an empty text fails with
\* InvalidParams and stores nothing.
C26_StoredRecordsValid ==
  /\ \A id \in DOMAIN datasets : SatisfiesValidator(datasets[id])
  /\ \A sender \in Principals, id \in DOMAIN datasets, m \in MetaInputs :
       EmptyText(m) =>
         LET out == update_dataset_metadata(Cur, sender, id, m) IN
         out.result = Err(ERR_INVALID_PARAMS) /\ out.state = Cur

\* C26 amended: every stored record satisfies the validator; an
\* update-dataset-metadata with an empty text always fails and stores
\* nothing, and it fails with InvalidParams when the record exists and is
\* not frozen, the registry is not paused and the caller is the owner.
C26_StoredRecordsSatisfyValidator ==
  /\ \A id \in DOMAIN datasets : SatisfiesValidator(datasets[id])
  /\ \A sender \in Principals, id \in ArgIds, m \in MetaInputs :
       EmptyText(m) =>
         LET out == update_dataset_metadata(Cur, sender, id, m) IN
         /\ ~out.result.ok
         /\ out.state = Cur
         /\ (HasDataset(Cur, id) /\ ~contract_paused /\ sender = datasets[id].owner
               /\ ~datasets[id].metadata_frozen) =>
              out.result = Err(ERR_INVALID_PARAMS)

\* Two records are stored; the owner of an unfrozen one, unpaused, passes each of the three empty texts and gets
\* InvalidParams, and an import with status "retired" is turned down.
C26_Witness ==
  \E id \in DOMAIN datasets :
    /\ Cardinality(DOMAIN datasets) = 2
    /\ ~contract_paused
    /\ ~datasets[id].metadata_frozen
    /\ \A m \in MetaInputs :
         EmptyText(m) =>
           update_dataset_metadata(Cur, datasets[id].owner, id, m).result
             = Err(ERR_INVALID_PARAMS)
    /\ Cardinality({ m \in MetaInputs : EmptyText(m) }) = 3
    /\ ~import_dataset(Cur, contract_admin, dataset_counter + 1, contract_admin, MetaOk, GeoOk,
                       [AdminOk EXCEPT !.status = "retired"]).result.ok

\* The fields of a record that are not descriptive metadata.
RestOf(d) ==
  [owner |-> d.owner, collection_date |-> d.collection_date,
   altitude_min |-> d.altitude_min, altitude_max |-> d.altitude_max,
   latitude |-> d.latitude, longitude |-> d.longitude, ipfs_hash |-> d.ipfs_hash,
   metadata_frozen |-> d.metadata_frozen, created_at |-> d.created_at,
   status |-> d.status]

\* C27: a successful update-dataset-metadata sets name, description,
\* data-type and is-public of the record to the values supplied and changes
\* nothing else: the record's other fields, every other record, every
\* owner index, counter, admin and paused are as before.
C27_UpdateChangesOnlyMetadata ==
  \A sender \in Principals, id \in ArgIds, m \in MetaInputs :
    LET out == update_dataset_metadata(Cur, sender, id, m) IN
    out.result.ok =>
      /\ DOMAIN out.state.datasets = DOMAIN datasets
      /\ MetaOf(out.state.datasets[id]) = m
      /\ RestOf(out.state.datasets[id]) = RestOf(datasets[id])
      /\ \A other \in DOMAIN datasets \ {id} : out.state.datasets[other] = datasets[other]
      /\ out.state.by_owner = datasets_by_owner
      /\ out.state.counter = dataset_counter
      /\ out.state.admin = contract_admin
      /\ out.state.paused = contract_paused

\* Two records are stored; the owner of one gives it another name,
\* description, data-type and visibility.
C27_Witness ==
  \E id \in DOMAIN datasets, m \in MetaInputs :
    /\ Cardinality(DOMAIN datasets) = 2
    /\ m.name # datasets[id].name /\ m.description # datasets[id].description
    /\ m.data_type # datasets[id].data_type /\ m.is_public # datasets[id].is_public
    /\ update_dataset_metadata(Cur, datasets[id].owner, id, m).result = Ok(TRUE)

\* The fields of a record that no operation is to change after creation.
CreationFieldsOf(d) ==
  [collection_date |-> d.collection_date, altitude_min |-> d.altitude_min,
   altitude_max |-> d.altitude_max, latitude |-> d.latitude,
   longitude |-> d.longitude, ipfs_hash |-> d.ipfs_hash,
   created_at |-> d.created_at, status |-> d.status]

\* C28: every step keeps each stored record in the store (get-dataset goes
\* on succeeding) with its collection-date, altitudes, coordinates,
\* ipfs-hash, created-at and status as they were, so they keep the values
\* written by the register or import that created the record.
C28_CreationFieldsKept ==
  [][\A id \in DOMAIN datasets :
       /\ get_dataset(Cur, id).ok
       /\ id \in DOMAIN datasets'
       /\ CreationFieldsOf(datasets'[id]) = CreationFieldsOf(datasets[id])]_vars

\* Record 1 has been frozen and stands behind record 2 in its owner's
\* index, where a transfer or a later import has put it; it holds the
\* measurement fields, created-at and status it was created with, and its
\* owner can still hand it on.
C28_Witness ==
  \E new_owner \in Principals :
    /\ HasDataset(Cur, 1)
    /\ datasets[1].metadata_frozen
    /\ datasets_by_owner[datasets[1].owner] = <<2, 1>>
    /\ new_owner # datasets[1].owner
    /\ CreationFieldsOf(datasets[1]) = CreationFieldsOf(NewDataset(new_owner, MetaOk, GeoOk, FALSE, 7, "active"))
    /\ transfer_dataset(Cur, datasets[1].owner, 1, new_owner).result.ok

\* burn-block-height values a register is tried at.
RegisterHeights == {7, 1000}

\* C29: after a successful register by a caller, returning id, get-dataset
\* of id gives a record owned by the caller with the name, description,
\* data-type, collection-date, altitudes, coordinates, ipfs-hash and
\* is-public supplied, metadata-frozen false, status "active" and
\* created-at the height of the call, and id is the last element of the
\* caller's index.
C29_RegisterStoresRecord ==
  \A sender \in Principals, r \in RegisterInputs, hash \in HashInputs, h \in RegisterHeights :
    LET m == r[1]
        g == WithHash(r[2], hash)
        out == register_dataset(Cur, sender, m, g, h)
        id == out.result.val
        ids == get_datasets_by_owner(out.state, sender)
    IN out.result.ok =>
         /\ get_dataset(out.state, id).ok
         /\ LET d == get_dataset(out.state, id).val IN
            /\ d.owner = sender
            /\ MetaOf(d) = m
            /\ d.collection_date = g.collection_date
            /\ d.altitude_min = g.altitude_min /\ d.altitude_max = g.altitude_max
            /\ d.latitude = g.latitude /\ d.longitude = g.longitude
            /\ d.ipfs_hash = hash
            /\ d.metadata_frozen = FALSE
            /\ d.status = "active"
            /\ d.created_at = h
         /\ Len(ids) >= 1 /\ ids[Len(ids)] = id
         /\ Count(ids, id) = 1

\* The last register put its record behind another in the caller's index,
\* created at the height of that call; a further register by the same
\* caller at another height succeeds.
C29_Witness ==
  \E sender \in Principals :
    /\ dataset_counter >= 2
    /\ HasDataset(Cur, dataset_counter)
    /\ datasets[dataset_counter].owner = sender
    /\ datasets[dataset_counter].created_at \in BlockHeights
    /\ Len(datasets_by_owner[sender]) = 2
    /\ datasets_by_owner[sender][2] = dataset_counter
    /\ register_dataset(Cur, sender, MetaOk, WithHash(GeoOk, "QmHash"), 1000).result
         = Ok(dataset_counter + 1)

\* C30: a transfer of a frozen record by its owner, on an unpaused registry
\* and to a new owner below capacity, succeeds: the record gets the new
\* owner and stays frozen, the id leaves the old owner's index and is put
\* last in the new owner's.
C30_FrozenRecordTransfers ==
  \A id \in DOMAIN datasets, new_owner \in Principals :
    LET old_owner == datasets[id].owner
        out == transfer_dataset(Cur, old_owner, id, new_owner)
    IN (/\ datasets[id].metadata_frozen
        /\ ~contract_paused
        /\ Len(datasets_by_owner[new_owner]) < MAX_OWNER_DATASETS) =>
         /\ out.result = Ok(TRUE)
         /\ out.state.datasets[id].owner = new_owner
         /\ out.state.datasets[id].metadata_frozen
         /\ out.state.datasets[id] = [datasets[id] EXCEPT !.owner = new_owner]
         /\ new_owner # old_owner =>
              /\ out.state.by_owner[old_owner] = Without(datasets_by_owner[old_owner], id)
              /\ out.state.by_owner[new_owner] = Append(datasets_by_owner[new_owner], id)

\* Unpaused, the owner of a frozen record hands it to the owner of the
\* other record.
C30_Witness ==
  \E id \in DOMAIN datasets, other \in DOMAIN datasets :
    LET old_owner == datasets[id].owner
        new_owner == datasets[other].owner
        out == transfer_dataset(Cur, old_owner, id, new_owner)
    IN /\ datasets[id].metadata_frozen
       /\ ~contract_paused
       /\ new_owner # old_owner
       /\ out.result = Ok(TRUE)
       /\ out.state.by_owner[new_owner] = <<other, id>>
       /\ out.state.datasets[id].metadata_frozen

\* The state S with record id marked frozen and nothing else changed.
FrozenIn(S, id) == [S EXCEPT !.datasets[id].metadata_frozen = TRUE]

\* C31 as stated: freeze-dataset-metadata by the record's owner succeeds on
\* a record frozen or not, sets metadata-frozen and changes nothing else,
\* and a second call leaves the state of the first.
C31_FreezeByOwnerSucceeds ==
  \A id \in DOMAIN datasets :
    LET owner == datasets[id].owner
        once == freeze_dataset_metadata(Cur, owner, id)
        twice == freeze_dataset_metadata(once.state, owner, id)
    IN /\ once.result = Ok(TRUE)
       /\ once.state = FrozenIn(Cur, id)
       /\ twice.result = Ok(TRUE)
       /\ twice.state = once.state

\* C31 amended: on a registry that is not paused, freeze-dataset-metadata
\* by the record's owner succeeds on a record frozen or not, sets
\* metadata-frozen and changes no other field of the record and nothing
\* else in the registry, and a second call leaves the state of the first.
C31_FreezeIdempotent ==
  \A id \in DOMAIN datasets :
    LET owner == datasets[id].owner
        once == freeze_dataset_metadata(Cur, owner, id)
        twice == freeze_dataset_metadata(once.state, owner, id)
    IN ~contract_paused =>
         /\ once.result = Ok(TRUE)
         /\ once.state = FrozenIn(Cur, id)
         /\ twice.result = Ok(TRUE)
         /\ twice.state = once.state

\* Unpaused, two records of one owner: one is frozen and its freeze leaves
\* the state, the other is not and its freeze changes it.
C31_Witness ==
  \E i \in DOMAIN datasets, j \in DOMAIN datasets :
    /\ ~contract_paused
    /\ datasets[i].owner = datasets[j].owner
    /\ datasets[i].metadata_frozen /\ ~datasets[j].metadata_frozen
    /\ freeze_dataset_metadata(Cur, datasets[i].owner, i) = [state |-> Cur, result |-> Ok(TRUE)]
    /\ freeze_dataset_metadata(Cur, datasets[j].owner, j).state # Cur

\* C32: add-dataset-to-owner of an id that is in the owner's list returns
\* success and leaves the list (same elements, same order, no duplicate),
\* also when the list is full; so a second add of an id leaves what the
\* first has made.
C32_AddIdempotent ==
  \A owner \in Principals :
    /\ \A i \in 1..Len(datasets_by_owner[owner]) :
         add_dataset_to_owner(Cur, owner, datasets_by_owner[owner][i])
           = [state |-> Cur, result |-> Ok(TRUE)]
    /\ \A id \in ArgIds :
         LET first == add_dataset_to_owner(Cur, owner, id)
             second == add_dataset_to_owner(first.state, owner, id)
         IN first.result.ok =>
              /\ second = [state |-> first.state, result |-> Ok(TRUE)]
              /\ Count(second.state.by_owner[owner], id) = 1

\* An owner's list is full: an add of each of its ids succeeds, an add of
\* another id does not.
C32_Witness ==
  \E owner \in Principals, id \in ArgIds :
    /\ Len(datasets_by_owner[owner]) = MAX_OWNER_DATASETS
    /\ ~Contains(datasets_by_owner[owner], id)
    /\ ~add_dataset_to_owner(Cur, owner, id).result.ok
    /\ \A i \in 1..MAX_OWNER_DATASETS :
         add_dataset_to_owner(Cur, owner, datasets_by_owner[owner][i]).result = Ok(TRUE)

\* The owner's index holds MAX-OWNER-DATASETS identifiers.
IndexFull(owner) == Len(datasets_by_owner[owner]) = MAX_OWNER_DATASETS

\* Identifiers an import may create: above 0 and not in the store.
FreshIds == { id \in 1..(dataset_counter + 2) : ~HasDataset(Cur, id) }

\* C33 as stated: a register by a caller, and an import by the admin for
\* an owner, whose index is full fails with InvalidParams; no record is
\* stored under the new identifier and the counter and the index stay.
C33_FullIndexInvalidParams ==
  /\ \A sender \in Principals, h \in BlockHeights :
       IndexFull(sender) =>
         LET out == register_dataset(Cur, sender, MetaOk, GeoOk, h) IN
         /\ out.result = Err(ERR_INVALID_PARAMS)
         /\ ~HasDataset(out.state, dataset_counter + 1)
         /\ out.state.counter = dataset_counter
         /\ out.state.by_owner[sender] = datasets_by_owner[sender]
  /\ \A owner \in Principals, id \in FreshIds :
       IndexFull(owner) =>
         LET out == import_dataset(Cur, contract_admin, id, owner, MetaOk, GeoOk, AdminOk) IN
         /\ out.result = Err(ERR_INVALID_PARAMS)
         /\ ~HasDataset(out.state, id)
         /\ out.state.counter = dataset_counter
         /\ out.state.by_owner[owner] = datasets_by_owner[owner]

\* C33 amended: such a register and such an import always fail, store no
\* record under the new identifier and leave the counter, the index and
\* everything else; on a registry that is not paused the failure is
\* InvalidParams.
C33_FullIndexRejects ==
  /\ \A sender \in Principals, h \in BlockHeights :
       IndexFull(sender) =>
         LET out == register_dataset(Cur, sender, MetaOk, GeoOk, h) IN
         /\ ~out.result.ok
         /\ ~HasDataset(out.state, dataset_counter + 1)
         /\ out.state = Cur
         /\ ~contract_paused => out.result = Err(ERR_INVALID_PARAMS)
  /\ \A owner \in Principals, id \in FreshIds :
       IndexFull(owner) =>
         LET out == import_dataset(Cur, contract_admin, id, owner, MetaOk, GeoOk, AdminOk) IN
         /\ ~out.result.ok
         /\ ~HasDataset(out.state, id)
         /\ out.state = Cur
         /\ ~contract_paused => out.result = Err(ERR_INVALID_PARAMS)

\* Unpaused, the admin's index is full: the admin's register and import for
\* itself are turned down with InvalidParams after they have written the
\* record, and the write is undone.
C33_Witness ==
  \E h \in BlockHeights :
    /\ ~contract_paused
    /\ IndexFull(contract_admin)
    /\ register_dataset(Cur, contract_admin, MetaOk, GeoOk, h).result = Err(ERR_INVALID_PARAMS)
    /\ HasDataset(register_dataset_body(Cur, contract_admin, MetaOk, GeoOk, h).state,
                  dataset_counter + 1)
    /\ import_dataset(Cur, contract_admin, dataset_counter + 2, contract_admin,
                      MetaOk, GeoOk, AdminOk).result = Err(ERR_INVALID_PARAMS)

\* The identifiers in a list, as a set.
IdsIn(list) == { list[i] : i \in 1..Len(list) }

\* C34: every identifier in an owner's index is the identifier of a stored
\* record owned by that owner, so get-datasets-by-owner of an owner holds
\* exactly the stored identifiers whose owner field is that owner.
C34_IndexHoldsOwnedRecords ==
  \A o \in Principals :
    LET ids == get_datasets_by_owner(Cur, o) IN
    /\ \A i \in 1..Len(ids) :
         /\ get_dataset(Cur, ids[i]).ok
         /\ get_dataset(Cur, ids[i]).val.owner = o
    /\ IdsIn(ids) = { id \in DOMAIN datasets : datasets[id].owner = o }

\* An owner of two records can hand one to somebody else, whose index
\* takes it while the owner's index lets go of it.
C34_Witness ==
  \E id \in DOMAIN datasets, new_owner \in Principals :
    LET old_owner == datasets[id].owner
        t == transfer_dataset(Cur, old_owner, id, new_owner)
    IN /\ new_owner # old_owner
       /\ Len(datasets_by_owner[old_owner]) = 2
       /\ t.result.ok
       /\ id \notin IdsIn(t.state.by_owner[old_owner])
       /\ id \in IdsIn(t.state.by_owner[new_owner])

\* The largest identifier in the store, 0 when the store is empty.
LargestId ==
  IF DOMAIN datasets = {} THEN 0
  ELSE CHOOSE id \in DOMAIN datasets : \A other \in DOMAIN datasets : other <= id

\* C35: the counter is the largest identifier in the store (0 when the
\* store is empty), so identifier counter + 1 is absent and a register
\* writes a new record and leaves every stored one, also after imports.
C35_CounterIsLargestId ==
  /\ dataset_counter = LargestId
  /\ ~get_dataset(Cur, dataset_counter + 1).ok
  /\ \A sender \in Principals, r \in RegisterInputs, h \in BlockHeights :
       LET out == register_dataset(Cur, sender, r[1], r[2], h) IN
       out.result.ok =>
         /\ out.result.val \notin DOMAIN datasets
         /\ \A id \in DOMAIN datasets : out.state.datasets[id] = datasets[id]

\* An import has created identifier 2 and left 1 out: the counter is 2, a
\* register creates 3 and not 1, and an import of 1 leaves the counter.
C35_Witness ==
  /\ dataset_counter = 2
  /\ DOMAIN datasets = {2}
  /\ \E sender \in Principals, h \in BlockHeights :
       register_dataset(Cur, sender, MetaOk, GeoOk, h).result = Ok(3)
  /\ LET out == import_dataset(Cur, contract_admin, 1, contract_admin, MetaOk, GeoOk, AdminOk)
     IN out.result = Ok(1) /\ out.state.counter = 2

\* The cursor of a page, when there is one, is beyond the offset asked for.
CursorAdvances(page, offset) ==
  (page.ok /\ page.val.next_offset # None) => page.val.next_offset[1] > offset

\* C36: whenever get-dataset-ids-page or get-datasets-by-owner-page returns
\* a cursor (some n), n is strictly greater than the offset passed in, for
\* every limit, 0 included, so that following the cursor comes to an end.
C36_CursorAdvances ==
  \A offset \in PageOffsets, limit \in PageLimits :
    /\ CursorAdvances(get_dataset_ids_page(Cur, offset, limit), offset)
    /\ \A owner \in Principals :
         CursorAdvances(get_datasets_by_owner_page(Cur, owner, offset, limit), offset)

\* The cursor of a page, when there is one, is beyond the offset asked for
\* and below the total.
CursorWithin(page, offset, total) ==
  (page.ok /\ page.val.next_offset # None) =>
    (page.val.next_offset[1] > offset /\ page.val.next_offset[1] < total)

\* The page asked for with limit 0 below the total: no items, and the
\* offset itself as cursor.
EmptyPageAt(offset) == Ok([items |-> << >>, next_offset |-> Some(offset)])

\* C36 amended: for every limit of at least 1 a cursor (some n) returned by
\* either page function is strictly greater than the offset passed in and
\* below the total, so following it with such a limit ends; with limit 0
\* and an offset below the total the page is empty and the cursor is the
\* offset passed in.
C36_CursorAdvancesForPositiveLimit ==
  \A offset \in PageOffsets :
    /\ \A limit \in PageLimits \ {0} :
         /\ CursorWithin(get_dataset_ids_page(Cur, offset, limit), offset, dataset_counter)
         /\ \A owner \in Principals :
              CursorWithin(get_datasets_by_owner_page(Cur, owner, offset, limit),
                           offset, Len(datasets_by_owner[owner]))
    /\ offset < dataset_counter => get_dataset_ids_page(Cur, offset, 0) = EmptyPageAt(offset)
    /\ \A owner \in Principals :
         offset < Len(datasets_by_owner[owner]) =>
           get_datasets_by_owner_page(Cur, owner, offset, 0) = EmptyPageAt(offset)

\* An owner holds every identifier and they are more than a page: from
\* offset 0 both functions hand out the cursor 1 for limit 1 and the cursor
\* 0 for limit 0.
C36_Witness ==
  \E owner \in Principals :
    /\ dataset_counter > MAX_PAGE_SIZE
    /\ Len(datasets_by_owner[owner]) = dataset_counter
    /\ get_dataset_ids_page(Cur, 0, 1).val.next_offset = Some(1)
    /\ get_datasets_by_owner_page(Cur, owner, 0, 1).val.next_offset = Some(1)
    /\ get_dataset_ids_page(Cur, 0, 0).val.next_offset = Some(0)
    /\ get_datasets_by_owner_page(Cur, owner, 0, 0).val.next_offset = Some(0)

\* What a client collects that starts at an offset and follows the cursor
\* with a fixed limit: the items of the pages one after the other.  A call
\* that gives no result, or a cursor still there after `calls` calls, puts
\* the id 0, which no list holds, at the end.
RECURSIVE FollowIdsPages(_, _, _)
FollowIdsPages(offset, limit, calls) ==
  LET page == get_dataset_ids_page(Cur, offset, limit) IN
  IF calls = 0 \/ ~page.ok THEN <<0>>
  ELSE IF page.val.next_offset = None THEN page.val.items
  ELSE page.val.items \o FollowIdsPages(page.val.next_offset[1], limit, calls - 1)

RECURSIVE FollowOwnerPages(_, _, _, _)
FollowOwnerPages(owner, offset, limit, calls) ==
  LET page == get_datasets_by_owner_page(Cur, owner, offset, limit) IN
  IF calls = 0 \/ ~page.ok THEN <<0>>
  ELSE IF page.val.next_offset = None THEN page.val.items
  ELSE page.val.items \o FollowOwnerPages(owner, page.val.next_offset[1], limit, calls - 1)

\* C37: in one state and with any fixed limit of at least 1, the pages of
\* get-dataset-ids-page from offset 0 along the cursor to its end hold
\* together 1..counter in ascending order, none twice and none left out,
\* and those of get-datasets-by-owner-page hold the owner's list element
\* for element.
C37_PagesCoverEverything ==
  \A limit \in PageLimits \ {0} :
    /\ FollowIdsPages(0, limit, dataset_counter + 1) = [k \in 1..dataset_counter |-> k]
    /\ \A owner \in Principals :
         FollowOwnerPages(owner, 0, limit, Len(datasets_by_owner[owner]) + 1)
           = get_datasets_by_owner(Cur, owner)

\* An owner holds every identifier, with the last one moved out of order,
\* and they are more than a page: the page at the cursor of the first page
\* goes on where the first ends.
C37_Witness ==
  \E owner \in Principals :
    LET all == datasets_by_owner[owner]
        first == get_datasets_by_owner_page(Cur, owner, 0, MAX_PAGE_SIZE)
    IN /\ dataset_counter > MAX_PAGE_SIZE
       /\ Len(all) = dataset_counter
       /\ all[1] > all[2]
       /\ first.val.next_offset = Some(MAX_PAGE_SIZE)
       /\ get_datasets_by_owner_page(Cur, owner, MAX_PAGE_SIZE, MAX_PAGE_SIZE).val.items[1]
            = all[MAX_PAGE_SIZE + 1]
       /\ get_dataset_ids_page(Cur, MAX_PAGE_SIZE, MAX_PAGE_SIZE).val.items[1]
            = MAX_PAGE_SIZE + 1

\* What a transfer of id by its owner to that same owner is to leave: the
\* record and the rest of the state as they were, and the owner's index
\* with the same identifiers, id once and in the last position.
SelfTransferDone(out, id, owner) ==
  /\ out.result = Ok(TRUE)
  /\ out.state.datasets = datasets
  /\ IdsIn(out.state.by_owner[owner]) = IdsIn(datasets_by_owner[owner])
  /\ Count(out.state.by_owner[owner], id) = 1
  /\ out.state.by_owner[owner] = Append(Without(datasets_by_owner[owner], id), id)
  /\ \A p \in Principals \ {owner} : out.state.by_owner[p] = datasets_by_owner[p]
  /\ out.state.counter = dataset_counter
  /\ out.state.admin = contract_admin
  /\ out.state.paused = contract_paused

\* C38 as stated: a transfer by the owner with new-owner the current owner
\* succeeds, also when the owner's index is full, leaves the record's
\* owner and the set of ids in the index, and leaves id once in the index,
\* in the last position.
C38_SelfTransferSucceeds ==
  \A id \in DOMAIN datasets :
    LET owner == datasets[id].owner IN
    SelfTransferDone(transfer_dataset(Cur, owner, id, owner), id, owner)

\* C38 amended: on a registry that is not paused such a transfer succeeds,
\* also when the owner's index is full, with the effects stated.
C38_SelfTransferMovesIdLast ==
  \A id \in DOMAIN datasets :
    LET owner == datasets[id].owner IN
    ~contract_paused =>
      SelfTransferDone(transfer_dataset(Cur, owner, id, owner), id, owner)

\* Unpaused, an owner's index is full and the transfer of its first id to
\* the owner itself moves that id behind the others.
C38_Witness ==
  \E owner \in Principals :
    LET ids == datasets_by_owner[owner]
        out == transfer_dataset(Cur, owner, ids[1], owner)
    IN /\ ~contract_paused
       /\ Len(ids) = MAX_OWNER_DATASETS
       /\ out.result = Ok(TRUE)
       /\ out.state.by_owner[owner] = Tail(ids) \o <<ids[1]>>
       /\ out.state.by_owner[owner] # ids

\* C39: set-paused and set-contract-admin do not pass the pause gate: in
\* every reachable state with paused true, set-paused(false) by the current
\* admin succeeds and makes paused false, and the admin can hand over, so
\* the registry is never paused for good while the admin can act.
C39_AdminCanUnpause ==
  contract_paused =>
    /\ set_paused(Cur, contract_admin, FALSE)
         = [state |-> WithPaused(Cur, FALSE), result |-> Ok(FALSE)]
    /\ is_contract_paused(set_paused(Cur, contract_admin, FALSE).state) = Ok(FALSE)
    /\ set_paused(Cur, contract_admin, TRUE) = [state |-> Cur, result |-> Ok(TRUE)]
    /\ \A n \in Principals :
         LET a == set_contract_admin(Cur, contract_admin, n) IN
         /\ a = [state |-> [Cur EXCEPT !.admin = n], result |-> Ok(n)]
         /\ set_paused(a.state, n, FALSE).result = Ok(FALSE)

\* The registry is paused, the admin is no longer the deployer and a record
\* is stored: the owner's freeze is turned down with ContractPaused while
\* the admin's set-paused(false) goes through.
C39_Witness ==
  \E id \in DOMAIN datasets :
    /\ contract_paused
    /\ contract_admin # Deployer
    /\ freeze_dataset_metadata(Cur, datasets[id].owner, id).result = Err(ERR_CONTRACT_PAUSED)
    /\ set_paused(Cur, contract_admin, FALSE).result = Ok(FALSE)
    /\ ~set_paused(Cur, contract_admin, FALSE).state.paused

\* Identifiers that are not in the store, u0 among them.
AbsentIds == { id \in 0..(dataset_counter + 2) : ~HasDataset(Cur, id) }

\* Equality of two Clarity values whose types may differ: a uint and a
\* response are never equal.
SameValue(a, b) == ToString(a) = ToString(b)

\* C40: update-dataset-metadata, freeze-dataset-metadata and
\* transfer-dataset on an identifier that is not in the store fail with
\* NotFound for every caller, paused or not (the lookup comes before the
\* pause gate and the ownership check), and get-dataset on such an
\* identifier fails with NotFound.
C40_AbsentIdNotFound ==
  \A id \in AbsentIds :
    /\ \A sender \in Principals :
         /\ \A m \in MetaInputs :
              update_dataset_metadata(Cur, sender, id, m).result = Err(ERR_DATASET_NOT_FOUND)
         /\ freeze_dataset_metadata(Cur, sender, id).result = Err(ERR_DATASET_NOT_FOUND)
         /\ \A n \in Principals :
              transfer_dataset(Cur, sender, id, n).result = Err(ERR_DATASET_NOT_FOUND)
    /\ LET g == get_dataset(Cur, id) IN
       ~g.ok /\ SameValue(g.val, ERR_DATASET_NOT_FOUND)

====
